---- MODULE Spec2Model ----
(***************************************************************************)
(* A model of rbl_circular_buffer (src/src/lib.rs): a fixed-capacity ring  *)
(* buffer over a raw storage region, with an overwrite-on-full push, a     *)
(* consuming iterator, two drains into a Vec (fill and _fast_fill), clone  *)
(* and the derived bitwise Copy.                                           *)
(*                                                                         *)
(* A CircularBuffer<T> is a record [buffer, w, r, size, full]; `buffer` is *)
(* a pointer, modelled as the id of a storage region, and `mem` maps every *)
(* allocated region to its slots.  Two records holding the same id alias   *)
(* the same slots.  A Vec<T> is a record [cap, data].                      *)
(***************************************************************************)
EXTENDS Integers, Sequences, FiniteSets, TLC

\* ------------------------------------------------------------------ bounds

\* Largest capacity handed to CircularBuffer::new.
MaxSize == 3
\* Pushed values are 1..MaxVal.
MaxVal == 2
\* Largest capacity of a sink Vec handed to a drain.
MaxCap == 3
\* Largest number of elements a sink already holds when it is handed to a drain.
MaxPre == 1

\* The content of a slot of freshly allocated storage (alloc_zeroed).
Zeroed == 0
\* The result of a remainder by zero: the operation panics.
Panic == -1
\* The null pointer.
Null == 0

Values == 1..MaxVal
Min(x, y) == IF x <= y THEN x ELSE y

\* ------------------------------------------------------------------ Vec<T>

\* Vec::with_capacity(cap), then `pre` elements pushed by the caller: they
\* are 0, which no push into the buffer uses, and the buffer never reads them.
with_capacity(cap, pre) == [cap |-> cap, data |-> [i \in 1..pre |-> 0]]

\* Vec::push: appends, growing the allocation when it is full (amortised
\* doubling, at least 4 elements for small element types).
vec_push(vec, e) ==
    [cap  |-> IF Len(vec.data) = vec.cap
                 THEN (IF 2 * vec.cap > 4 THEN 2 * vec.cap ELSE 4)
                 ELSE vec.cap,
     data |-> Append(vec.data, e)]

\* capacity() - len() of a Vec.
room(vec) == vec.cap - Len(vec.data)

\* ------------------------------------------------------- CircularBuffer<T>

\* size_of::<u32>() and align_of::<u32>(): the element type of the tests.
TypeSize == 4
Alignment == 4
\* usize::MAX and isize::MAX, on the narrowest pointer width Rust supports
\* (16 bits): the overflow checks do not depend on the width.
UsizeMax == 2^16 - 1
IsizeMax == 2^15 - 1

\* usize::wrapping_mul in the place of checked_mul: the product modulo 2^w.
wrapping_mul(x, y) == <<(x * y) % (UsizeMax + 1)>>

\* usize::checked_mul: <<>> is None, <<x>> is Some(x).
checked_mul(x, y) == IF x * y > UsizeMax THEN <<>> ELSE <<x * y>>

\* Layout::from_size_align: an error when the size, rounded up to the
\* (power of two) alignment, exceeds isize::MAX.
from_size_align(size, align) == IF size > IsizeMax - (align - 1) THEN <<>> ELSE <<size>>

\* CircularBuffer::new, given the pointer alloc_zeroed returns: both unwrap()
\* calls panic on None / Err; the pointer is stored as it comes.
new(size, ptr) ==
    LET vector_size == checked_mul(TypeSize, size)
        layout == IF vector_size = <<>> THEN <<>>
                  ELSE from_size_align(vector_size[1], Alignment)
    IN  IF layout = <<>>
           THEN [panic |-> TRUE, buf |-> << >>]
           ELSE [panic |-> FALSE,
                 buf |-> [buffer |-> ptr, w |-> 0, r |-> 0, size |-> size,
                          full |-> FALSE]]

\* The storage alloc_zeroed hands out for `size` elements.
alloc_zeroed(size) == [i \in 0..(size - 1) |-> Zeroed]

\* len with the operands of the wrapped case swapped.
len_swapped(self) ==
    IF self.full THEN self.size
    ELSE IF self.w > self.r THEN self.w - self.r
    ELSE IF self.w = self.r THEN 0
    ELSE self.size - self.w + self.r

len(self) ==
    IF self.full THEN self.size
    ELSE IF self.w > self.r THEN self.w - self.r
    ELSE IF self.w = self.r THEN 0
    ELSE self.size - self.r + self.w

next_inc(self, i) == IF self.size = 0 THEN Panic ELSE (i + 1) % self.size

w_inc(self) == [self EXCEPT !.w = next_inc(self, self.w)]

r_inc(self) == [self EXCEPT !.r = next_inc(self, self.r)]

r_inc_of(self, n) ==
    [self EXCEPT !.r = IF self.size = 0 THEN Panic ELSE (self.r + n) % self.size]

\* write: the cursor advances first, then the value lands in the old slot.
\* A store through a pointer that is no allocated storage (the null pointer a
\* failed allocation left in `buffer`) is undefined; it ends the process with
\* a memory fault, recorded like a panic.
write(self, mem, value) ==
    LET w_index == self.w
        s1 == w_inc(self)
    IN  IF s1.w = Panic \/ self.buffer \notin DOMAIN mem
           THEN [self |-> self, mem |-> mem, slot |-> w_index, panic |-> TRUE]
           ELSE [self  |-> s1,
                 mem   |-> [mem EXCEPT ![self.buffer][w_index] = value],
                 slot  |-> w_index,
                 panic |-> FALSE]

\* read taking the slot at the cursor after it advanced.
read_after_inc(self, mem) ==
    LET s1 == r_inc(self)
    IN  [self |-> s1, value |-> mem[self.buffer][s1.r], slot |-> s1.r]

\* read: the cursor advances, the slot is copied out bitwise and stays as it is.
read(self, mem) ==
    LET r_index == self.r
    IN  [self |-> r_inc(self), value |-> mem[self.buffer][r_index], slot |-> r_index]

\* drop finalizing the slot after the write cursor.
drop_after_w(self) == next_inc(self, self.w)

\* drop: finalizes in place the value in the slot at the write cursor.
drop(self) == self.w

\* push that keeps the read cursor where it is when it overwrites.
push_no_r_inc(self, mem, value) ==
    LET dropped == IF self.full THEN <<drop(self)>> ELSE <<>>
        wr == write(self, mem, value)
        s2 == wr.self
    IN  IF wr.panic
           THEN [self |-> self, mem |-> mem, ret |-> 0, dropped |-> dropped,
                 wrote |-> <<>>, panic |-> TRUE]
           ELSE IF s2.w = s2.r
                   THEN [self |-> [s2 EXCEPT !.full = TRUE], mem |-> wr.mem,
                         ret |-> 0, dropped |-> dropped, wrote |-> <<wr.slot>>,
                         panic |-> FALSE]
                   ELSE [self |-> s2, mem |-> wr.mem,
                         ret |-> s2.size - len(s2), dropped |-> dropped,
                         wrote |-> <<wr.slot>>, panic |-> FALSE]

\* push that returns the occupancy instead of the free slots.
push_ret_len(self, mem, value) ==
    LET dropped == IF self.full THEN <<drop(self)>> ELSE <<>>
        s1 == IF self.full THEN r_inc(self) ELSE self
        wr == write(s1, mem, value)
        s2 == wr.self
    IN  IF wr.panic
           THEN [self |-> self, mem |-> mem, ret |-> 0, dropped |-> dropped,
                 wrote |-> <<>>, panic |-> TRUE]
           ELSE IF s2.w = s2.r
                   THEN [self |-> [s2 EXCEPT !.full = TRUE], mem |-> wr.mem,
                         ret |-> 0, dropped |-> dropped, wrote |-> <<wr.slot>>,
                         panic |-> FALSE]
                   ELSE [self |-> s2, mem |-> wr.mem,
                         ret |-> len(s2), dropped |-> dropped,
                         wrote |-> <<wr.slot>>, panic |-> FALSE]

push(self, mem, value) ==
    LET dropped == IF self.full THEN <<drop(self)>> ELSE <<>>
        s1 == IF self.full THEN r_inc(self) ELSE self
        wr == write(s1, mem, value)
        s2 == wr.self
    IN  IF wr.panic
           THEN [self |-> self, mem |-> mem, ret |-> 0, dropped |-> dropped,
                 wrote |-> <<>>, panic |-> TRUE]
           ELSE IF s2.w = s2.r
                   THEN [self |-> [s2 EXCEPT !.full = TRUE], mem |-> wr.mem,
                         ret |-> 0, dropped |-> dropped, wrote |-> <<wr.slot>>,
                         panic |-> FALSE]
                   ELSE [self |-> s2, mem |-> wr.mem,
                         ret |-> s2.size - len(s2), dropped |-> dropped,
                         wrote |-> <<wr.slot>>, panic |-> FALSE]

\* next that leaves the full flag set.
next_keeps_full(self, mem) ==
    IF len(self) = 0
       THEN [self |-> self, item |-> <<>>, moved |-> <<>>]
       ELSE LET rd == read(self, mem)
            IN  [self |-> rd.self, item |-> <<rd.value>>, moved |-> <<rd.slot>>]

\* next that takes equal cursors for an empty buffer, whatever the full flag.
next_ignores_full(self, mem) ==
    IF self.w = self.r
       THEN [self |-> self, item |-> <<>>, moved |-> <<>>]
       ELSE LET rd == read([self EXCEPT !.full = FALSE], mem)
            IN  [self |-> rd.self, item |-> <<rd.value>>, moved |-> <<rd.slot>>]

\* Iterator::next: None is the empty sequence, Some(v) is <<v>>.
next(self, mem) ==
    IF len(self) = 0
       THEN [self |-> self, item |-> <<>>, moved |-> <<>>]
       ELSE LET rd == read([self EXCEPT !.full = FALSE], mem)
            IN  [self |-> rd.self, item |-> <<rd.value>>, moved |-> <<rd.slot>>]

\* size_hint reporting the capacity as the upper bound.
size_hint_loose(self) == <<len(self), <<self.size>> >>

\* Iterator::size_hint: (lower, Some(upper)).
size_hint(self) == <<len(self), <<len(self)>> >>

\* Iterator::collect: the values next() yields until it returns None.
RECURSIVE collect(_, _)
collect(self, mem) ==
    LET n == next(self, mem)
    IN  IF n.item = <<>> THEN <<>> ELSE n.item \o collect(n.self, mem)

\* The fill loop testing the sink's capacity instead of its remaining room.
RECURSIVE fill_loop_capacity(_, _, _, _)
fill_loop_capacity(self, mem, return_vector, i) ==
    IF return_vector.cap > 0 /\ i < return_vector.cap
       THEN LET n == next(self, mem)
            IN  IF n.item # <<>>
                   THEN [fill_loop_capacity(n.self, mem,
                                            vec_push(return_vector, n.item[1]), i + 1)
                            EXCEPT !.moved = n.moved \o @]
                   ELSE [self |-> n.self, vec |-> return_vector, ret |-> i,
                         moved |-> <<>>]
       ELSE [self |-> self, vec |-> return_vector, ret |-> i, moved |-> <<>>]

RECURSIVE fill_loop(_, _, _, _)
fill_loop(self, mem, return_vector, i) ==
    IF room(return_vector) > 0
       THEN LET n == next(self, mem)
            IN  IF n.item # <<>>
                   THEN [fill_loop(n.self, mem, vec_push(return_vector, n.item[1]),
                                   i + 1)
                            EXCEPT !.moved = n.moved \o @]
                   ELSE [self |-> n.self, vec |-> return_vector, ret |-> i,
                         moved |-> <<>>]
       ELSE [self |-> self, vec |-> return_vector, ret |-> i, moved |-> <<>>]

fill(self, mem, return_vector) == fill_loop(self, mem, return_vector, 0)

\* A Range<usize> is [start, end]; its len() is 0 when end <= start.
range_len(range) == IF range.end > range.start THEN range.end - range.start ELSE 0

\* The slot indices of a range, in order.
range_slots(range) == [k \in 1..range_len(range) |-> range.start + k - 1]

\* split_in_ranges taking coinciding cursors for an empty buffer, full or not.
split_in_ranges_no_full(self) ==
    IF self.r < self.w
       THEN <<[start |-> self.r, end |-> self.w], <<>> >>
    ELSE IF self.r = self.w
       THEN <<[start |-> self.r, end |-> self.r], <<>> >>
    ELSE <<[start |-> self.r, end |-> self.size], <<[start |-> 0, end |-> self.w]>> >>

\* split_in_ranges handing out the two ranges of a wrapped region in storage
\* order, the one starting at slot 0 first.
split_in_ranges_storage_order(self) ==
    IF self.r < self.w
       THEN <<[start |-> self.r, end |-> self.w], <<>> >>
    ELSE IF self.r = self.w /\ ~self.full
       THEN <<[start |-> self.r, end |-> self.r], <<>> >>
    ELSE <<[start |-> 0, end |-> self.w], <<[start |-> self.r, end |-> self.size]>> >>

\* (first range, second range): the second is <<>> for None, <<range>> for Some.
split_in_ranges(self) ==
    IF self.r < self.w
       THEN <<[start |-> self.r, end |-> self.w], <<>> >>
    ELSE IF self.r = self.w
       THEN IF self.full
               THEN <<[start |-> self.r, end |-> self.size],
                      <<[start |-> 0, end |-> self.w]>> >>
               ELSE <<[start |-> self.r, end |-> self.r], <<>> >>
    ELSE <<[start |-> self.r, end |-> self.size], <<[start |-> 0, end |-> self.w]>> >>

\* fill_vector_from_split copying the whole range, whatever the sink's room.
fill_vector_from_split_whole(self, mem, range, vec) ==
    LET sink_capacity == room(vec)
        n == range_len(range)
    IN  IF sink_capacity = 0 \/ range_len(range) = 0
           THEN [self |-> self, vec |-> vec, ret |-> 0, moved |-> <<>>]
           ELSE [self |-> [r_inc_of(self, n) EXCEPT !.full = FALSE],
                 vec  |-> [vec EXCEPT !.data =
                              @ \o [k \in 1..n |-> mem[self.buffer][range.start + k - 1]]],
                 ret  |-> n, moved |-> range_slots(range)]

fill_vector_from_split(self, mem, range, vec) ==
    LET sink_capacity == room(vec)
        to_push == IF range_len(range) <= sink_capacity
                      THEN range
                      ELSE [range EXCEPT !.end = range.start + sink_capacity]
        n == range_len(to_push)
    IN  IF sink_capacity = 0 \/ range_len(range) = 0
           THEN [self |-> self, vec |-> vec, ret |-> 0, moved |-> <<>>]
           ELSE [self |-> [r_inc_of(self, n) EXCEPT !.full = FALSE],
                 vec  |-> [vec EXCEPT !.data =
                              @ \o [k \in 1..n |-> mem[self.buffer][to_push.start + k - 1]]],
                 ret  |-> n, moved |-> range_slots(to_push)]

_fast_fill(self, mem, return_vector) ==
    LET sink_capacity == room(return_vector)
        rs == split_in_ranges(self)
        f1 == fill_vector_from_split(self, mem, rs[1], return_vector)
        f2 == fill_vector_from_split(f1.self, mem, rs[2][1], f1.vec)
    IN  IF len(self) = 0 \/ sink_capacity = 0
           THEN [self |-> self, vec |-> return_vector, ret |-> 0, moved |-> <<>>]
        ELSE IF f1.ret = sink_capacity \/ rs[2] = <<>>
           THEN f1
        ELSE [self |-> f2.self, vec |-> f2.vec, ret |-> f1.ret + f2.ret,
              moved |-> f1.moved \o f2.moved]

\* The storage after an allocation returned ptr: a failed allocation (null)
\* adds nothing.
Allocate(m, ptr, size) ==
    IF ptr = Null THEN m
    ELSE [p \in DOMAIN m \cup {ptr} |-> IF p = ptr THEN alloc_zeroed(size) ELSE m[p]]

\* clone duplicating the five fields only, the pointer included.
clone_shallow(self, mem, ptr) ==
    [new |-> self, mem |-> mem, read |-> <<>>, wrote |-> <<>>, dropped |-> <<>>]

\* clone copying the first range only.
clone_first_range(self, mem, ptr) ==
    LET fresh == [new(self.size, ptr).buf EXCEPT
                     !.w = self.w, !.r = self.r, !.size = self.size, !.full = self.full]
        rs == split_in_ranges(self)
        slots == range_slots(rs[1])
        copied == { slots[k] : k \in DOMAIN slots }
        m1 == Allocate(mem, ptr, self.size)
    IN  [new |-> fresh,
         mem |-> IF copied = {} THEN m1
                 ELSE [m1 EXCEPT ![ptr] =
                          [i \in DOMAIN @ |->
                              IF i \in copied THEN mem[self.buffer][i] ELSE @[i]]],
         read |-> slots, wrote |-> slots, dropped |-> <<>>]

\* Clone::clone, given the pointer alloc_zeroed returns to new(): every slot
\* of the two ranges is read bitwise, cloned into the same slot of the new
\* storage, and the bitwise copy forgotten (never finalized).
clone(self, mem, ptr) ==
    LET fresh == [new(self.size, ptr).buf EXCEPT
                     !.w = self.w, !.r = self.r, !.size = self.size, !.full = self.full]
        rs == split_in_ranges(self)
        slots == range_slots(rs[1]) \o
                 (IF rs[2] = <<>> THEN <<>> ELSE range_slots(rs[2][1]))
        copied == { slots[k] : k \in DOMAIN slots }
        m1 == Allocate(mem, ptr, self.size)
    IN  [new |-> fresh,
         mem |-> IF copied = {} THEN m1
                 ELSE [m1 EXCEPT ![ptr] =
                          [i \in DOMAIN @ |->
                              IF i \in copied THEN mem[self.buffer][i] ELSE @[i]]],
         read |-> slots, wrote |-> slots, dropped |-> <<>>]

\* The loop of fmt printing every slot from the read cursor up to the write
\* cursor, the first one included: nothing for a full buffer.
fmt_loop_from_r(self, mem, debug) ==
    LET RECURSIVE go(_)
        go(fake_read) ==
            IF fake_read # self.w
               THEN LET rest == go(next_inc(self, fake_read))
                    IN  [values |-> <<mem[self.buffer][fake_read]>> \o rest.values,
                         slots  |-> <<fake_read>> \o rest.slots,
                         seps   |-> 1 + rest.seps]
               ELSE [values |-> <<>>, slots |-> <<>>, seps |-> 0]
        all == go(self.r)
    IN  IF len(self) = 0
           THEN [empty |-> TRUE, values |-> <<>>, slots |-> <<>>, seps |-> 0,
                 trailer |-> <<>>, dropped |-> <<>>]
           ELSE [empty |-> FALSE, values |-> all.values, slots |-> all.slots,
                 seps |-> IF all.seps > 0 THEN all.seps - 1 ELSE 0,
                 trailer |-> IF debug THEN <<[w |-> self.w, r |-> self.r,
                                              size |-> self.size, full |-> self.full]>>
                             ELSE <<>>,
                 dropped |-> <<>>]

\* fmt letting every element it read go out of scope instead of forgetting it.
fmt_no_forget(self, mem, debug) ==
    LET RECURSIVE go(_)
        go(fake_read) ==
            IF fake_read # self.w
               THEN LET rest == go(next_inc(self, fake_read))
                    IN  [values |-> <<mem[self.buffer][fake_read]>> \o rest.values,
                         slots  |-> <<fake_read>> \o rest.slots,
                         seps   |-> 1 + rest.seps]
               ELSE [values |-> <<>>, slots |-> <<>>, seps |-> 0]
        rest == go(next_inc(self, self.r))
    IN  IF len(self) = 0
           THEN [empty |-> TRUE, values |-> <<>>, slots |-> <<>>, seps |-> 0,
                 trailer |-> <<>>, dropped |-> <<>>]
           ELSE [empty |-> FALSE,
                 values |-> <<mem[self.buffer][self.r]>> \o rest.values,
                 slots |-> <<self.r>> \o rest.slots,
                 seps |-> rest.seps,
                 trailer |-> IF debug THEN <<[w |-> self.w, r |-> self.r,
                                              size |-> self.size, full |-> self.full]>>
                             ELSE <<>>,
                 dropped |-> <<self.r>> \o rest.slots]

\* Debug::fmt (debug = TRUE) and Display::fmt (debug = FALSE): what is written
\* to the formatter.  `empty` is the text "CircularBuffer(<empty>)"; otherwise
\* the text is "CircularBuffer(", the elements `values` (read bitwise out of
\* `slots`, each forgotten after it is printed) with `seps` separators ", "
\* between them, and ")", which Debug follows with w, r, size and full.
fmt(self, mem, debug) ==
    LET RECURSIVE go(_)
        go(fake_read) ==
            IF fake_read # self.w
               THEN LET rest == go(next_inc(self, fake_read))
                    IN  [values |-> <<mem[self.buffer][fake_read]>> \o rest.values,
                         slots  |-> <<fake_read>> \o rest.slots,
                         seps   |-> 1 + rest.seps]
               ELSE [values |-> <<>>, slots |-> <<>>, seps |-> 0]
        rest == go(next_inc(self, self.r))
    IN  IF len(self) = 0
           THEN [empty |-> TRUE, values |-> <<>>, slots |-> <<>>, seps |-> 0,
                 trailer |-> <<>>, dropped |-> <<>>]
           ELSE [empty |-> FALSE,
                 values |-> <<mem[self.buffer][self.r]>> \o rest.values,
                 slots |-> <<self.r>> \o rest.slots,
                 seps |-> rest.seps,
                 trailer |-> IF debug THEN <<[w |-> self.w, r |-> self.r,
                                              size |-> self.size, full |-> self.full]>>
                             ELSE <<>>,
                 dropped |-> <<>>]

\* ------------------------------------------------------------------- state

VARIABLES
    bufs,       \* the live CircularBuffer instances, by name ("a", "b")
    mem,        \* storage: region id -> slot index -> content
    fifo,       \* the reference Vec of instance a (tests.rs keep_track_of_values)
    hist,       \* the values pushed so far, while nothing but pushes happened
    live,       \* region id -> the slots holding a value that was written and
                \* neither moved out nor finalized since
    panicked,   \* the thread has panicked
    sync,       \* the lock two threads share the buffer under, and what each
                \* thread is doing (see the section on threads)
    last        \* the operation that led here: its arguments, results, pre-state

vars == <<bufs, mem, fifo, hist, live, panicked, sync, last>>

NoVec == with_capacity(0, 0)

NoOp == [op |-> "new", who |-> "a", value |-> 0, ret |-> 0, item |-> <<>>,
         vecIn |-> NoVec, vecOut |-> NoVec, retB |-> 0, vecOutB |-> NoVec,
         dropped |-> <<>>, read |-> <<>>, wrote |-> <<>>, out |-> <<>>,
         released |-> <<>>, dup |-> "", steps |-> 0,
         pre |-> << >>, premem |-> << >>, prefifo |-> <<>>, prelive |-> << >>]

\* No thread holds the lock, nothing was pushed or delivered; the consumer is
\* outside fill.
NoSync == [lock |-> {}, pushed |-> <<>>, delivered |-> <<>>, evicted |-> <<>>,
           pc |-> "idle", vec |-> NoVec, r_index |-> 0]

\* The slots of a sequence of slot indices.
Slots(seq) == { seq[k] : k \in DOMAIN seq }

\* `live` after an operation on the storage at ptr finalized or moved out
\* the slots `gone` and then wrote the slots `came`.
LiveAfter(l, ptr, gone, came) ==
    IF ptr \in DOMAIN l THEN [l EXCEPT ![ptr] = (@ \ Slots(gone)) \cup Slots(came)]
    ELSE l

\* The longest push-only run `hist` records.
MaxHist == MaxSize + 2
NoHist == [only |-> FALSE, seq |-> <<>>]
HistPush(h, v) ==
    IF h.only /\ Len(h.seq) < MaxHist THEN [h EXCEPT !.seq = Append(@, v)] ELSE NoHist

\* The pointers alloc_zeroed may return for `size` elements.  A zero-sized
\* layout is outside its contract: it returns null or a dangling pointer.
Pointers(size, fresh) == IF size = 0 THEN {Null, fresh} ELSE {fresh}

\* The state after `let mut a = CircularBuffer::<u32>::new(size)`.
Construct ==
    \E size \in 0..MaxSize : \E ptr \in Pointers(size, 1) :
        LET n == new(size, ptr)
        IN  /\ bufs = IF n.panic THEN << >> ELSE [i \in {"a"} |-> n.buf]
            /\ mem = IF n.panic THEN << >> ELSE Allocate(<< >>, ptr, size)
            /\ live = [p \in DOMAIN mem |-> {}]
            /\ panicked = n.panic
            /\ last = NoOp

Init ==
    /\ Construct
    /\ fifo = <<>>
    /\ hist = [only |-> TRUE, seq |-> <<>>]
    /\ sync = NoSync

\* The reference sequence of keep_track_of_values: a bounded FIFO.
RefPush(q, n, v) == IF Len(q) >= n THEN Tail(q) \o <<v>> ELSE Append(q, v)
RefTake(q, k) == SubSeq(q, 1, Min(Len(q), k))
RefRest(q, k) == SubSeq(q, Min(Len(q), k) + 1, Len(q))

\* a.push(value)
Push(value) ==
    /\ ~panicked
    /\ LET p == push(bufs.a, mem, value)
       IN  /\ bufs' = [bufs EXCEPT !.a = p.self]
           /\ mem' = p.mem
           /\ panicked' = p.panic
           /\ fifo' = IF p.panic THEN fifo ELSE RefPush(fifo, bufs.a.size, value)
           /\ hist' = IF p.panic THEN NoHist ELSE HistPush(hist, value)
           /\ live' = IF p.panic THEN live
                      ELSE LiveAfter(live, bufs.a.buffer, p.dropped, p.wrote)
           /\ last' = [NoOp EXCEPT !.op = "push", !.value = value, !.ret = p.ret,
                                   !.dropped = p.dropped, !.wrote = p.wrote,
                                   !.pre = bufs, !.premem = mem, !.prefifo = fifo,
                                   !.prelive = live]
    /\ UNCHANGED sync

\* a.next()
Pull ==
    /\ ~panicked
    /\ LET n == next(bufs.a, mem)
       IN  /\ bufs' = [bufs EXCEPT !.a = n.self]
           /\ fifo' = RefRest(fifo, 1)
           /\ live' = LiveAfter(live, bufs.a.buffer, n.moved, <<>>)
           /\ last' = [NoOp EXCEPT !.op = "next", !.item = n.item, !.read = n.moved,
                                   !.pre = bufs, !.premem = mem, !.prefifo = fifo,
                                   !.prelive = live]
           /\ hist' = NoHist
           /\ UNCHANGED <<mem, panicked>>
    /\ UNCHANGED sync

\* a.fill(&mut vec)
Fill(vec) ==
    /\ ~panicked
    /\ LET f == fill(bufs.a, mem, vec)
       IN  /\ bufs' = [bufs EXCEPT !.a = f.self]
           /\ fifo' = RefRest(fifo, room(vec))
           /\ live' = LiveAfter(live, bufs.a.buffer, f.moved, <<>>)
           /\ last' = [NoOp EXCEPT !.op = "fill", !.ret = f.ret, !.vecIn = vec,
                                   !.vecOut = f.vec, !.read = f.moved,
                                   !.pre = bufs, !.premem = mem, !.prefifo = fifo,
                                   !.prelive = live]
           /\ hist' = NoHist
           /\ UNCHANGED <<mem, panicked>>
    /\ UNCHANGED sync

\* a._fast_fill(&mut vec)
FastFill(vec) ==
    /\ ~panicked
    /\ LET f == _fast_fill(bufs.a, mem, vec)
       IN  /\ bufs' = [bufs EXCEPT !.a = f.self]
           /\ fifo' = RefRest(fifo, room(vec))
           /\ live' = LiveAfter(live, bufs.a.buffer, f.moved, <<>>)
           /\ last' = [NoOp EXCEPT !.op = "_fast_fill", !.ret = f.ret, !.vecIn = vec,
                                   !.vecOut = f.vec, !.read = f.moved,
                                   !.pre = bufs, !.premem = mem, !.prefifo = fifo,
                                   !.prelive = live]
           /\ hist' = NoHist
           /\ UNCHANGED <<mem, panicked>>
    /\ UNCHANGED sync

\* format!("{:?}", a) and format!("{}", a): fmt borrows the buffer shared.
Render(debug) ==
    /\ ~panicked
    /\ LET f == fmt(bufs.a, mem, debug)
       IN  /\ live' = LiveAfter(live, bufs.a.buffer, f.dropped, <<>>)
           /\ last' = [NoOp EXCEPT !.op = "fmt", !.out = f, !.read = f.slots,
                                   !.dropped = f.dropped,
                                   !.pre = bufs, !.premem = mem, !.prefifo = fifo,
                                   !.prelive = live]
           /\ UNCHANGED <<bufs, mem, fifo, hist, panicked>>
    /\ UNCHANGED sync

\* The sinks a caller hands to a drain.
Sinks ==
    UNION { { with_capacity(cap, pre) : pre \in 0..Min(cap, MaxPre) } : cap \in 0..MaxCap }

Next ==
    \/ \E value \in Values : Push(value)
    \/ Pull
    \/ \E vec \in Sinks : Fill(vec)
    \/ \E vec \in Sinks : FastFill(vec)
    \/ \E debug \in BOOLEAN : Render(debug)

Spec == Init /\ [][Next]_vars

\* --------------------------------------------------------- end of lifetime

\* `a` goes out of scope.  CircularBuffer has no Drop implementation (a Copy
\* type cannot have one) and its fields are a raw pointer, three usize and a
\* bool, so no code runs: no slot is finalized and the storage is not
\* deallocated.
EndOfLife ==
    /\ ~panicked /\ "a" \in DOMAIN bufs
    /\ bufs' = [i \in DOMAIN bufs \ {"a"} |-> bufs[i]]
    /\ last' = [NoOp EXCEPT !.op = "end", !.dropped = <<>>, !.released = <<>>,
                            !.pre = bufs, !.premem = mem, !.prefifo = fifo,
                            !.prelive = live]
    /\ UNCHANGED <<mem, fifo, hist, live, panicked>>
    /\ UNCHANGED sync

NextLife ==
    \/ "a" \in DOMAIN bufs /\ Next
    \/ EndOfLife

SpecLife == Init /\ [][NextLife]_vars

\* ------------------------------------------------------------ construction

\* The largest capacity whose layout is accepted, and the smallest capacity
\* whose size in bytes overflows usize.
LargestLayout == (IsizeMax - (Alignment - 1)) \div TypeSize
FirstOverflow == (UsizeMax \div TypeSize) + 1

\* The capacities handed to new: the small ones, and those around the two
\* limits of the size computation.
NewSizes ==
    (0..MaxSize) \cup {LargestLayout, LargestLayout + 1,
                       FirstOverflow - 1, FirstOverflow, FirstOverflow + 1}

\* What alloc_zeroed may return for a layout of non-zero size: fresh storage,
\* or null when the allocation fails.
AllocResults(fresh) == {Null, fresh}

\* The state after `CircularBuffer::<u32>::new(size)`, for every capacity and
\* every outcome of the allocation; last.value keeps the requested capacity
\* and last.ret the pointer alloc_zeroed returned.
InitNew ==
    /\ \E size \in NewSizes : \E ptr \in AllocResults(1) :
          LET n == new(size, ptr)
          IN  /\ bufs = IF n.panic THEN << >> ELSE [i \in {"a"} |-> n.buf]
              /\ mem = IF n.panic THEN << >> ELSE Allocate(<< >>, ptr, size)
              /\ panicked = n.panic
              /\ last = [NoOp EXCEPT !.value = size,
                                     !.ret = IF n.panic THEN Null ELSE ptr]
    /\ live = [p \in DOMAIN mem |-> {}]
    /\ fifo = <<>>
    /\ hist = [only |-> TRUE, seq |-> <<>>]
    /\ sync = NoSync

\* The operations on the constructed buffer; the buffers of the large
\* capacities are constructed and then left alone.
NextNew == ~panicked /\ bufs.a.size <= MaxSize /\ Next

SpecNew == InitNew /\ [][NextNew]_vars

\* ---------------------------------------------- fill against _fast_fill

HasB == "b" \in DOMAIN bufs

\* The state after two buffers of one capacity were constructed
\* (tests.rs fast_fill_vs_fill).
InitPair ==
    /\ \E size \in 0..MaxSize :
         \E pa \in Pointers(size, 1) : \E pb \in Pointers(size, 2) :
            /\ bufs = [i \in {"a", "b"} |->
                          IF i = "a" THEN new(size, pa).buf ELSE new(size, pb).buf]
            /\ mem = Allocate(Allocate(<< >>, pa, size), pb, size)
    /\ live = [p \in DOMAIN mem |-> {}]
    /\ panicked = FALSE
    /\ last = NoOp
    /\ fifo = <<>>
    /\ hist = NoHist
    /\ sync = NoSync

\* a.push(value); b.push(value)
PairPush(value) ==
    /\ ~panicked
    /\ LET pa == push(bufs.a, mem, value)
           pb == push(bufs.b, pa.mem, value)
       IN  /\ panicked' = pa.panic
           /\ bufs' = IF pa.panic THEN bufs
                      ELSE [bufs EXCEPT !.a = pa.self, !.b = pb.self]
           /\ mem' = IF pa.panic THEN mem ELSE pb.mem
           /\ live' = IF pa.panic THEN live
                      ELSE LiveAfter(LiveAfter(live, bufs.a.buffer, pa.dropped, pa.wrote),
                                     bufs.b.buffer, pb.dropped, pb.wrote)
           /\ last' = [NoOp EXCEPT !.op = "push", !.value = value, !.ret = pa.ret,
                                   !.retB = IF pa.panic THEN 0 ELSE pb.ret,
                                   !.dropped = pa.dropped,
                                   !.pre = bufs, !.premem = mem]
           /\ UNCHANGED <<fifo, hist>>
    /\ UNCHANGED sync

\* a.fill(&mut a_drainer); b._fast_fill(&mut b_drainer), the two drainers alike
PairDrain(vec) ==
    /\ ~panicked
    /\ LET fa == fill(bufs.a, mem, vec)
           fb == _fast_fill(bufs.b, mem, vec)
       IN  /\ bufs' = [bufs EXCEPT !.a = fa.self, !.b = fb.self]
           /\ last' = [NoOp EXCEPT !.op = "drain", !.vecIn = vec,
                                   !.ret = fa.ret, !.vecOut = fa.vec,
                                   !.retB = fb.ret, !.vecOutB = fb.vec,
                                   !.pre = bufs, !.premem = mem]
           /\ live' = LiveAfter(LiveAfter(live, bufs.a.buffer, fa.moved, <<>>),
                                bufs.b.buffer, fb.moved, <<>>)
           /\ UNCHANGED <<mem, panicked, fifo, hist>>
    /\ UNCHANGED sync

NextPair ==
    \/ \E value \in Values : PairPush(value)
    \/ \E vec \in Sinks : PairDrain(vec)

SpecPair == InitPair /\ [][NextPair]_vars

\* ----------------------------------------------------------- duplication

\* let b = a.clone()
Clone ==
    /\ ~panicked /\ ~HasB
    /\ \E ptr \in Pointers(bufs.a.size, 2) :
         LET c == clone(bufs.a, mem, ptr)
         IN  /\ bufs' = [i \in {"a", "b"} |-> IF i = "a" THEN bufs.a ELSE c.new]
             /\ mem' = c.mem
             /\ live' = LiveAfter([p \in DOMAIN c.mem |->
                                      IF p \in DOMAIN live THEN live[p] ELSE {}],
                                  ptr, <<>>, c.wrote)
             /\ last' = [NoOp EXCEPT !.op = "clone", !.dropped = c.dropped,
                                     !.read = c.read, !.wrote = c.wrote,
                                     !.dup = "clone",
                                     !.pre = bufs, !.premem = mem, !.prefifo = fifo,
                                     !.prelive = live]
    /\ hist' = NoHist
    /\ UNCHANGED <<fifo, panicked>>
    /\ UNCHANGED sync

\* let b = a: the derived Copy duplicates the five fields, pointer included.
Copy ==
    /\ ~panicked /\ ~HasB
    /\ bufs' = [i \in {"a", "b"} |-> bufs.a]
    /\ last' = [NoOp EXCEPT !.op = "copy", !.dup = "copy",
                            !.pre = bufs, !.premem = mem, !.prefifo = fifo,
                            !.prelive = live]
    /\ hist' = NoHist
    /\ UNCHANGED <<mem, fifo, live, panicked>>
    /\ UNCHANGED sync

\* a.fill(&mut v1); b.fill(&mut v2) right after the duplication, the two
\* sinks alike (tests.rs copy_works_as_expected); or both with _fast_fill.
DrainBoth(vec, fast) ==
    /\ ~panicked /\ HasB
    /\ last.op \in {"clone", "copy"}
    /\ LET fa == IF fast THEN _fast_fill(bufs.a, mem, vec) ELSE fill(bufs.a, mem, vec)
           fb == IF fast THEN _fast_fill(bufs.b, mem, vec) ELSE fill(bufs.b, mem, vec)
       IN  /\ bufs' = [bufs EXCEPT !.a = fa.self, !.b = fb.self]
           /\ last' = [NoOp EXCEPT !.op = "drain_both", !.vecIn = vec,
                                   !.ret = fa.ret, !.vecOut = fa.vec,
                                   !.retB = fb.ret, !.vecOutB = fb.vec,
                                   !.dup = last.dup,
                                   !.pre = bufs, !.premem = mem, !.prefifo = fifo,
                                   !.prelive = live]
           /\ live' = LiveAfter(LiveAfter(live, bufs.a.buffer, fa.moved, <<>>),
                                bufs.b.buffer, fb.moved, <<>>)
    /\ fifo' = RefRest(fifo, room(vec))
    /\ UNCHANGED <<mem, hist, panicked>>
    /\ UNCHANGED sync

NextDup ==
    \/ ~HasB /\ Next
    \/ Clone
    \/ Copy
    \/ \E vec \in Sinks : \E fast \in BOOLEAN : DrainBoth(vec, fast)

SpecDup == Init /\ [][NextDup]_vars

\* ------------------------------------- the two instances used on their own

\* Largest capacity of a buffer that is duplicated and then used.
IndepMaxSize == 2
\* Number of operations applied to the two instances after the duplication.
MaxSteps == 2

\* The state after `let mut a = CircularBuffer::<u32>::new(size)`.
InitIndep ==
    /\ \E size \in 0..IndepMaxSize : \E ptr \in Pointers(size, 1) :
          LET n == new(size, ptr)
          IN  /\ bufs = IF n.panic THEN << >> ELSE [i \in {"a"} |-> n.buf]
              /\ mem = IF n.panic THEN << >> ELSE Allocate(<< >>, ptr, size)
              /\ panicked = n.panic
    /\ live = [p \in DOMAIN mem |-> {}]
    /\ last = NoOp
    /\ fifo = <<>>
    /\ hist = [only |-> TRUE, seq |-> <<>>]
    /\ sync = NoSync

\* The reference sequence follows instance a.
RefOf(who, q) == IF who = "a" THEN q ELSE fifo

\* bufs[who].push(value)
PushOn(who, value) ==
    /\ ~panicked /\ HasB /\ last.steps < MaxSteps
    /\ LET p == push(bufs[who], mem, value)
       IN  /\ bufs' = IF p.panic THEN bufs ELSE [bufs EXCEPT ![who] = p.self]
           /\ mem' = IF p.panic THEN mem ELSE p.mem
           /\ panicked' = p.panic
           /\ fifo' = IF p.panic THEN fifo
                      ELSE RefOf(who, RefPush(fifo, bufs[who].size, value))
           /\ live' = IF p.panic THEN live
                      ELSE LiveAfter(live, bufs[who].buffer, p.dropped, p.wrote)
           /\ last' = [NoOp EXCEPT !.op = "push", !.who = who, !.value = value,
                                   !.ret = p.ret, !.dropped = p.dropped,
                                   !.wrote = p.wrote,
                                   !.dup = last.dup, !.steps = last.steps + 1,
                                   !.pre = bufs, !.premem = mem, !.prefifo = fifo,
                                   !.prelive = live]
    /\ hist' = NoHist
    /\ UNCHANGED sync

\* bufs[who].next()
PullOn(who) ==
    /\ ~panicked /\ HasB /\ last.steps < MaxSteps
    /\ LET n == next(bufs[who], mem)
       IN  /\ bufs' = [bufs EXCEPT ![who] = n.self]
           /\ fifo' = RefOf(who, RefRest(fifo, 1))
           /\ live' = LiveAfter(live, bufs[who].buffer, n.moved, <<>>)
           /\ last' = [NoOp EXCEPT !.op = "next", !.who = who, !.item = n.item,
                                   !.read = n.moved,
                                   !.dup = last.dup, !.steps = last.steps + 1,
                                   !.pre = bufs, !.premem = mem, !.prefifo = fifo,
                                   !.prelive = live]
    /\ hist' = NoHist
    /\ UNCHANGED <<mem, panicked>>
    /\ UNCHANGED sync

\* bufs[who].fill(&mut vec)
FillOn(who, vec) ==
    /\ ~panicked /\ HasB /\ last.steps < MaxSteps
    /\ LET f == fill(bufs[who], mem, vec)
       IN  /\ bufs' = [bufs EXCEPT ![who] = f.self]
           /\ fifo' = RefOf(who, RefRest(fifo, room(vec)))
           /\ live' = LiveAfter(live, bufs[who].buffer, f.moved, <<>>)
           /\ last' = [NoOp EXCEPT !.op = "fill", !.who = who, !.ret = f.ret,
                                   !.vecIn = vec, !.vecOut = f.vec, !.read = f.moved,
                                   !.dup = last.dup, !.steps = last.steps + 1,
                                   !.pre = bufs, !.premem = mem, !.prefifo = fifo,
                                   !.prelive = live]
    /\ hist' = NoHist
    /\ UNCHANGED <<mem, panicked>>
    /\ UNCHANGED sync

\* The sinks handed to a fill after the duplication: one with room for a
\* single value, one with room for MaxCap.
IndepSinks == {with_capacity(1, 0), with_capacity(MaxCap, 0)}

NextIndep ==
    \/ ~HasB /\ \E value \in Values : Push(value)
    \/ ~HasB /\ Pull
    \/ Clone
    \/ Copy
    \/ \E who \in {"a", "b"} : \E value \in Values : PushOn(who, value)
    \/ \E who \in {"a", "b"} : PullOn(who)
    \/ \E who \in {"a", "b"} : \E vec \in IndepSinks : FillOn(who, vec)

SpecIndep == InitIndep /\ [][NextIndep]_vars

\* ------------------------------------------- two threads under one lock

\* A producer thread pushes the values 1, 2, 3, ... and a consumer thread
\* fills vectors; both reach buffer a through one mutex and hold it for a
\* whole push or a whole fill.  sync.lock is the set of threads inside the
\* mutex, sync.pushed the values pushed so far, sync.delivered the values the
\* consumer received, sync.evicted the values finalized by a push on a full
\* buffer.  The consumer's fill is taken one statement of read at a time
\* (r_index = self.r; self.r_inc() -- then ptr.read()), so that only the lock
\* keeps a push from landing between the two.

\* A lock that is granted whoever holds it.
may_lock_always(s) == TRUE

\* Mutex::lock returns only while no thread holds the mutex.
may_lock(s) == s.lock = {}

\* thread t takes the lock; the producer stops after MaxHist pushes.
Acquire(t) ==
    /\ ~panicked /\ t \notin sync.lock
    /\ may_lock(sync)
    /\ t = "producer" => Len(sync.pushed) < MaxHist
    /\ sync' = [sync EXCEPT !.lock = @ \cup {t}]
    /\ UNCHANGED <<bufs, mem, fifo, hist, live, panicked, last>>

\* producer: a.push(value), then the lock guard goes out of scope.
ProducerPush ==
    /\ ~panicked /\ "producer" \in sync.lock
    /\ LET value == Len(sync.pushed) + 1
           p == push(bufs.a, mem, value)
           gone == [k \in DOMAIN p.dropped |-> mem[bufs.a.buffer][p.dropped[k]]]
       IN  /\ bufs' = IF p.panic THEN bufs ELSE [bufs EXCEPT !.a = p.self]
           /\ mem' = IF p.panic THEN mem ELSE p.mem
           /\ panicked' = p.panic
           /\ fifo' = IF p.panic THEN fifo ELSE RefPush(fifo, bufs.a.size, value)
           /\ live' = IF p.panic THEN live
                      ELSE LiveAfter(live, bufs.a.buffer, p.dropped, p.wrote)
           /\ sync' = [sync EXCEPT !.lock = @ \ {"producer"},
                                   !.pushed = Append(@, value),
                                   !.evicted = @ \o gone]
           /\ last' = [NoOp EXCEPT !.op = "push", !.value = value, !.ret = p.ret,
                                   !.dropped = p.dropped, !.wrote = p.wrote,
                                   !.pre = bufs, !.premem = mem, !.prefifo = fifo,
                                   !.prelive = live]
    /\ hist' = NoHist

\* consumer: a.fill(&mut vec) is entered.
ConsumerBegin(vec) ==
    /\ ~panicked /\ "consumer" \in sync.lock /\ sync.pc = "idle"
    /\ sync' = [sync EXCEPT !.pc = "loop", !.vec = vec]
    /\ last' = [NoOp EXCEPT !.op = "fill_begin", !.vecIn = vec,
                            !.pre = bufs, !.premem = mem, !.prefifo = fifo,
                            !.prelive = live]
    /\ hist' = NoHist
    /\ UNCHANGED <<bufs, mem, fifo, live, panicked>>

\* consumer: the loop test of fill passes and next() finds len() # 0: it
\* clears full, and read notes r_index and advances the read cursor.
ConsumerTake ==
    /\ ~panicked /\ sync.pc = "loop"
    /\ room(sync.vec) > 0 /\ len(bufs.a) # 0
    /\ LET rd == read([bufs.a EXCEPT !.full = FALSE], mem)
       IN  /\ bufs' = [bufs EXCEPT !.a = rd.self]
           /\ live' = LiveAfter(live, bufs.a.buffer, <<rd.slot>>, <<>>)
           /\ sync' = [sync EXCEPT !.pc = "read", !.r_index = rd.slot]
    /\ UNCHANGED <<mem, fifo, hist, panicked, last>>

\* consumer: read copies the slot at r_index out, and fill pushes it to the
\* vector.
ConsumerRead ==
    /\ ~panicked /\ sync.pc = "read"
    /\ LET element == mem[bufs.a.buffer][sync.r_index]
       IN  sync' = [sync EXCEPT !.pc = "loop", !.r_index = 0,
                                !.vec = vec_push(@, element),
                                !.delivered = Append(@, element)]
    /\ UNCHANGED <<bufs, mem, fifo, hist, live, panicked, last>>

\* consumer: the vector has no room left or next() returned None; fill
\* returns and the lock guard goes out of scope.
ConsumerEnd ==
    /\ ~panicked /\ sync.pc = "loop"
    /\ room(sync.vec) = 0 \/ len(bufs.a) = 0
    /\ sync' = [sync EXCEPT !.pc = "idle", !.vec = NoVec,
                            !.lock = @ \ {"consumer"}]
    /\ last' = [last EXCEPT !.op = "fill", !.vecOut = sync.vec,
                            !.ret = Len(sync.vec.data) - Len(last.vecIn.data)]
    /\ fifo' = RefRest(fifo, room(last.vecIn))
    /\ UNCHANGED <<bufs, mem, hist, live, panicked>>

NextLock ==
    \/ \E t \in {"producer", "consumer"} : Acquire(t)
    \/ ProducerPush
    \/ \E vec \in Sinks : ConsumerBegin(vec)
    \/ ConsumerTake
    \/ ConsumerRead
    \/ ConsumerEnd

SpecLock == Init /\ [][NextLock]_vars

\* ------------------------------------------------------------------ claims

a == bufs.a
Alive == ~panicked /\ "a" \in DOMAIN bufs
Drained == last.op \in {"fill", "_fast_fill"}
\* The elements a drain appended to its sink.
Appended(vecIn, vecOut) == SubSeq(vecOut.data, Len(vecIn.data) + 1, Len(vecOut.data))
LastN(q, n) == SubSeq(q, Len(q) - n + 1, Len(q))

\* C1: a buffer of capacity n >= 1 refines the bounded FIFO: after any pushes,
\* pulls and fills its occupied content is the reference sequence, a pull
\* hands out the head of the reference sequence, and a fill appends to the
\* sink the first min(len, room) reference values in order, the buffer
\* keeping the newest len - moved values.
C1_RefinesBoundedFifo ==
    (Alive /\ a.size >= 1) =>
        /\ collect(a, mem) = fifo
        /\ last.op = "fill" =>
              /\ Appended(last.vecIn, last.vecOut) = RefTake(last.prefifo, room(last.vecIn))
              /\ collect(a, mem) = RefRest(last.prefifo, room(last.vecIn))
        /\ last.op = "next" => last.item = RefTake(last.prefifo, 1)
        /\ last.op = "push" =>
              fifo = IF Len(last.prefifo) = a.size
                        THEN Tail(last.prefifo) \o <<last.value>>
                        ELSE last.prefifo \o <<last.value>>

\* A fill out of a full buffer whose content wraps around the end of the
\* storage, into a sink with less room than that.
C1_Witness ==
    /\ Alive /\ last.op = "fill"
    /\ last.pre.a.full /\ last.pre.a.r = last.pre.a.size - 1
    /\ last.ret >= 2
    /\ len(a) >= 1
    /\ fifo # <<>>
    /\ Appended(last.vecIn, last.vecOut)[1] # Appended(last.vecIn, last.vecOut)[2]

\* C2: after k > n pushes into an empty buffer of capacity n, len() is n and
\* collecting the buffer yields the last n pushed values, oldest first.
C2_KeepsLastN ==
    (Alive /\ a.size >= 1 /\ hist.only /\ Len(hist.seq) > a.size) =>
        /\ len(a) = a.size
        /\ collect(a, mem) = LastN(hist.seq, a.size)

C2_Witness ==
    /\ Alive /\ hist.only /\ a.size = 3 /\ Len(hist.seq) = 5
    /\ hist.seq[3] # hist.seq[4]

\* C3: 0 <= len() <= n after every operation, for every capacity n >= 1.
C3_LenInRange ==
    (Alive /\ a.size >= 1) => (0 <= len(a) /\ len(a) <= a.size)

\* A fill left a wrapped, partly occupied buffer behind.
C3_Witness ==
    /\ Alive /\ last.op = "fill" /\ a.size = 3
    /\ a.w < a.r /\ len(a) = 2

\* C4: a push takes len() from L to min(n, L + 1); a fill into a sink with
\* room m returns min(L, m) and takes len() down by what it returned.
C4_LenBookkeeping ==
    (Alive /\ a.size >= 1) =>
        /\ last.op = "push" => len(a) = Min(a.size, len(last.pre.a) + 1)
        /\ last.op = "fill" =>
              /\ last.ret = Min(len(last.pre.a), room(last.vecIn))
              /\ len(a) = len(last.pre.a) - last.ret

\* A fill out of a full buffer into a sink with less room than that.
C4_Witness ==
    /\ Alive /\ last.op = "fill"
    /\ last.pre.a.full /\ last.pre.a.size = 3
    /\ room(last.vecIn) = 2 /\ last.ret = 2 /\ len(a) = 1

\* C5: push returns n - len() as measured after the push, which is 0 exactly
\* when the buffer is then full; the k-th push into an empty buffer of
\* capacity n returns n - k while k <= n and 0 afterwards.
C5_PushReturnsFreeSlots ==
    (Alive /\ a.size >= 1 /\ last.op = "push") =>
        /\ last.ret = a.size - len(a)
        /\ (last.ret = 0) <=> (len(a) = a.size)
        /\ (last.ret = 0) <=> a.full
        /\ hist.only =>
              last.ret = IF Len(hist.seq) <= a.size THEN a.size - Len(hist.seq) ELSE 0

\* A push that leaves free slots behind a drain.
C5_Witness ==
    /\ Alive /\ last.op = "push" /\ last.ret = 1 /\ a.size = 3
    /\ ~hist.only /\ a.w < a.r

\* C7: a drain never takes the sink beyond the capacity it came with, never
\* changes that capacity, and only appends behind what the sink held.
C7_SinkNeverGrows ==
    (Alive /\ Drained) =>
        /\ Len(last.vecOut.data) <= last.vecIn.cap
        /\ last.vecOut.cap = last.vecIn.cap
        /\ Len(last.vecOut.data) >= Len(last.vecIn.data)
        /\ SubSeq(last.vecOut.data, 1, Len(last.vecIn.data)) = last.vecIn.data

\* A fast drain out of a buffer holding more than a part-filled sink takes.
C7_Witness ==
    /\ Alive /\ last.op = "_fast_fill"
    /\ Len(last.vecIn.data) = 1 /\ room(last.vecIn) = 1
    /\ len(last.pre.a) = 3 /\ last.ret = 1

\* C8: with no room in the sink, or nothing in the buffer, fill and
\* _fast_fill return 0 and leave the sink, the cursors, the full flag and
\* the occupied content as they were.
C8_DegenerateDrainIsNoOp ==
    (Alive /\ Drained /\ (room(last.vecIn) = 0 \/ len(last.pre.a) = 0)) =>
        /\ last.ret = 0
        /\ last.vecOut = last.vecIn
        /\ a = last.pre.a
        /\ collect(a, mem) = collect(last.pre.a, last.premem)

\* A fill into a sink that is full, out of a buffer that is full.
C8_Witness ==
    /\ Alive /\ last.op = "fill"
    /\ last.vecIn.cap = 1 /\ room(last.vecIn) = 0
    /\ last.pre.a.full /\ last.pre.a.size >= 2

b == bufs.b

\* C6: two buffers of one capacity given the same pushes, one drained with
\* fill and the other with _fast_fill into sinks in the same state, hand out
\* the same sink contents and the same counts at every drain, and hold the
\* same read cursor, write cursor and full flag after every step.
C6_FastFillEqualsFill ==
    (HasB /\ ~panicked) =>
        /\ a.r = b.r /\ a.w = b.w /\ a.full = b.full
        /\ last.op = "drain" =>
              /\ last.vecOut = last.vecOutB
              /\ last.ret = last.retB

\* A drain out of two full buffers whose content wraps around the end of
\* the storage, taking part of the second range.
C6_Witness ==
    /\ HasB /\ ~panicked /\ last.op = "drain"
    /\ last.pre.b.full /\ last.pre.b.r = 2 /\ last.pre.b.size = 3
    /\ last.retB = 2 /\ len(b) = 1
    /\ Len(last.vecIn.data) = 1

\* C9: new(0) fails at construction: it never returns a buffer of capacity 0
\* on which push, next, fill or _fast_fill is then called.
C9_ZeroCapacityRejected ==
    \A i \in DOMAIN bufs :
        bufs[i].size = 0 => last.op \notin {"push", "next", "fill", "_fast_fill"}

\* C10: a duplicate (clone or bitwise copy) has the capacity, cursors, full
\* flag and occupied content of its source, the source keeps its cursors,
\* flag, storage and content and none of its values is finalized; the two
\* drained one after the other into sinks of one capacity hand out the
\* same values.
C10_DuplicateEqualsSource ==
    (HasB /\ ~panicked) =>
        /\ last.op \in {"clone", "copy"} =>
              /\ b.size = a.size /\ b.r = a.r /\ b.w = a.w /\ b.full = a.full
              /\ collect(b, mem) = collect(a, mem)
              /\ a = last.pre.a
              /\ \A p \in DOMAIN last.premem : mem[p] = last.premem[p]
              /\ collect(a, mem) = last.prefifo
              /\ last.dropped = <<>>
        /\ last.op = "drain_both" =>
              /\ last.vecOut = last.vecOutB
              /\ last.ret = last.retB
              /\ Appended(last.vecIn, last.vecOut) = RefTake(last.prefifo, room(last.vecIn))

\* A clone of a wrapped buffer, and the two then drained.
C10_Witness ==
    /\ HasB /\ ~panicked /\ last.op = "drain_both"
    /\ a.buffer # b.buffer
    /\ last.pre.a.r > last.pre.a.w /\ last.pre.a.w > 0
    /\ last.ret = 2

\* C14: a pull on a buffer with len() >= 1 returns the oldest occupied value
\* (the slot at the read cursor, the head of the reference sequence), clears
\* the full flag, advances the read cursor by one modulo the capacity, leaves
\* the write cursor and the storage alone and decreases len() by exactly 1;
\* on a buffer with len() = 0 it returns None and changes nothing, and as long
\* as len() = 0 the next pull returns None again.
C14_PullSemantics ==
    Alive =>
        /\ last.op = "next" /\ len(last.pre.a) >= 1 =>
              /\ last.item = <<last.premem[last.pre.a.buffer][last.pre.a.r]>>
              /\ last.item = RefTake(last.prefifo, 1)
              /\ ~a.full
              /\ a.r = (last.pre.a.r + 1) % a.size
              /\ a.w = last.pre.a.w
              /\ len(a) = len(last.pre.a) - 1
              /\ collect(a, mem) = Tail(collect(last.pre.a, last.premem))
              /\ mem = last.premem
        /\ last.op = "next" /\ len(last.pre.a) = 0 =>
              /\ last.item = <<>>
              /\ bufs = last.pre
              /\ mem = last.premem
        /\ len(a) = 0 =>
              /\ next(a, mem).item = <<>>
              /\ next(a, mem).self = a

\* A pull out of a full buffer whose read cursor sits on the last slot, so the
\* cursor wraps to 0.
C14_Witness ==
    /\ Alive /\ last.op = "next"
    /\ last.pre.a.full /\ last.pre.a.size >= 2
    /\ last.pre.a.r = last.pre.a.size - 1
    /\ a.r = 0 /\ last.item # <<>>

\* C15: size_hint() is exact: its lower bound and its upper bound are both
\* len(), and len() is the number of consecutive pulls that return a value
\* before None when no push intervenes.
C15_SizeHintExact ==
    Alive =>
        /\ size_hint(a)[1] = len(a)
        /\ size_hint(a)[2] = <<len(a)>>
        /\ size_hint(a)[1] = Len(collect(a, mem))
        /\ size_hint(a)[2] = <<Len(collect(a, mem))>>

\* After a pull that left a wrapped, partly filled buffer.
C15_Witness ==
    /\ Alive /\ last.op = "next" /\ last.item # <<>>
    /\ a.r > a.w /\ len(a) >= 1 /\ len(a) < a.size
    /\ size_hint(a) = <<len(a), <<len(a)>> >>

\* The slots split_in_ranges designates, first range then second.
split_slots(self) ==
    LET rs == split_in_ranges(self)
    IN  range_slots(rs[1]) \o (IF rs[2] = <<>> THEN <<>> ELSE range_slots(rs[2][1]))

\* C16: rendering emits the empty marker exactly when len() = 0, and otherwise
\* exactly len() values with len() - 1 separators: the occupied values oldest
\* to newest, read from the slots of the range split in the same order.
C16_RenderListsOccupied ==
    (Alive /\ last.op = "fmt") =>
        /\ last.out.empty <=> len(a) = 0
        /\ last.out.empty => last.out.values = <<>>
        /\ ~last.out.empty =>
              /\ Len(last.out.values) = len(a)
              /\ last.out.seps = len(a) - 1
              /\ last.out.values = collect(a, mem)
              /\ last.out.values = fifo
              /\ last.out.slots = split_slots(a)

\* Rendering a full buffer whose cursors coincide away from slot 0.
C16_Witness ==
    /\ Alive /\ last.op = "fmt" /\ ~last.out.empty
    /\ a.full /\ a.r = a.w /\ a.r > 0 /\ a.size >= 2
    /\ last.out.values[1] # last.out.values[2]

Occupied(self) == Slots(split_slots(self))
LiveOf(l, self) == IF self.buffer \in DOMAIN l THEN l[self.buffer] ELSE {}
NoRepeat(seq) == Cardinality(Slots(seq)) = Len(seq)

\* C20: every slot an operation reads as a value, clones or finalizes lies in
\* the occupied region and holds a live value; no slot is taken twice by one
\* operation, and none is both moved out and finalized; a push on a full
\* buffer finalizes exactly the slot at write cursor = read cursor, once,
\* before writing it; a push on a non-full buffer, next, fill, _fast_fill (and
\* fmt, clone) finalize nothing.  The live slots stay the occupied region.
C20_OnlyOccupiedSlotsTouched ==
    (Alive /\ last.op \in {"push", "next", "fill", "_fast_fill", "fmt", "clone"}) =>
        /\ Slots(last.read) \subseteq Occupied(last.pre.a)
        /\ Slots(last.dropped) \subseteq Occupied(last.pre.a)
        /\ Slots(last.read) \subseteq LiveOf(last.prelive, last.pre.a)
        /\ Slots(last.dropped) \subseteq LiveOf(last.prelive, last.pre.a)
        /\ NoRepeat(last.read \o last.dropped)
        /\ last.op = "push" /\ last.pre.a.full =>
              /\ last.pre.a.w = last.pre.a.r
              /\ last.dropped = <<last.pre.a.r>>
              /\ last.dropped = <<Head(split_slots(last.pre.a))>>
              /\ last.wrote = last.dropped
        /\ last.op = "push" /\ ~last.pre.a.full =>
              /\ last.dropped = <<>>
              /\ Slots(last.wrote) \cap LiveOf(last.prelive, last.pre.a) = {}
        /\ last.op # "push" => last.dropped = <<>>
        /\ LiveOf(live, a) = Occupied(a)
        /\ last.op = "clone" => LiveOf(live, b) = Occupied(b)

\* A push that overwrites the oldest value of a full buffer whose cursors
\* coincide away from slot 0.
C20_Witness ==
    /\ Alive /\ last.op = "push" /\ last.pre.a.full
    /\ last.pre.a.r > 0 /\ last.pre.a.size >= 2
    /\ last.dropped = <<last.pre.a.r>>
    /\ a.full

\* C13: when the lifetime of a buffer ends, every value still occupying a
\* slot is finalized exactly once and the storage is then released exactly
\* once.
C13_EndFinalizesAndReleases ==
    (~panicked /\ last.op = "end" /\ last.pre.a.size >= 1) =>
        /\ Slots(last.dropped) = Occupied(last.pre.a)
        /\ NoRepeat(last.dropped)
        /\ last.released = <<last.pre.a.buffer>>
        /\ last.pre.a.buffer \notin DOMAIN mem

\* C18: when the allocation of the backing storage fails, new aborts: no
\* buffer of capacity >= 1 ever holds the null pointer of a failed allocation.
C18_NullNeverReturned ==
    \A i \in DOMAIN bufs : bufs[i].size >= 1 => bufs[i].buffer # Null

\* C19: when capacity x element size overflows usize, or exceeds the largest
\* layout size, new panics and returns no buffer; no buffer ever exists whose
\* size in bytes is beyond those limits.
C19_OverflowAborts ==
    /\ (last.op = "new" /\ TypeSize * last.value > UsizeMax) =>
           panicked /\ bufs = << >> /\ mem = << >>
    /\ (last.op = "new" /\ TypeSize * last.value > IsizeMax - (Alignment - 1)) =>
           panicked /\ bufs = << >> /\ mem = << >>
    /\ (last.op = "new" /\ TypeSize * last.value <= IsizeMax - (Alignment - 1)) =>
           ~panicked /\ bufs.a.size = last.value
    /\ \A i \in DOMAIN bufs :
           TypeSize * bufs[i].size <= IsizeMax - (Alignment - 1)

\* new with a capacity whose size in bytes wraps around to a small number.
C19_Witness ==
    /\ last.op = "new" /\ panicked /\ bufs = << >>
    /\ TypeSize * last.value > UsizeMax
    /\ (TypeSize * last.value) % (UsizeMax + 1) = TypeSize

\* The instance an operation did not act on.
Other(who) == IF who = "a" THEN "b" ELSE "a"
ActedOnOne == HasB /\ last.op \in {"push", "next", "fill"}

\* C11: after b = a.clone(), a push, pull or fill applied to one instance
\* leaves the other instance's len(), cursors, full flag, storage and
\* occupied content unchanged; instance a keeps following its own reference
\* sequence whatever is done to b.
C11_CloneIsIndependent ==
    (ActedOnOne /\ last.dup = "clone") =>
        LET o == Other(last.who)
        IN  /\ bufs[o] = last.pre[o]
            /\ len(bufs[o]) = len(last.pre[o])
            /\ collect(bufs[o], mem) = collect(last.pre[o], last.premem)
            /\ bufs[o].buffer \in DOMAIN mem =>
                   mem[bufs[o].buffer] = last.premem[bufs[o].buffer]
            /\ LiveOf(live, bufs[o]) = LiveOf(last.prelive, last.pre[o])
            /\ (~panicked /\ a.size >= 1) => collect(a, mem) = fifo

\* A push into the full clone that overwrites its oldest value, the source
\* still holding that value.
C11_Witness ==
    /\ ActedOnOne /\ last.dup = "clone" /\ ~panicked
    /\ last.op = "push" /\ last.who = "b" /\ last.pre.b.full
    /\ a.full /\ b.size = 2
    /\ collect(a, mem) # collect(b, mem)
    /\ collect(a, mem) = collect(last.pre.a, last.premem)

\* C12: no two buffer instances ever refer to the same storage, so that an
\* operation on one never changes the storage or the occupied content of the
\* other.
C12_StorageNeverShared ==
    /\ \A i, j \in DOMAIN bufs :
          (i # j /\ bufs[i].size >= 1 /\ bufs[i].buffer # Null) =>
              bufs[i].buffer # bufs[j].buffer
    /\ (ActedOnOne /\ bufs[Other(last.who)].buffer \in DOMAIN mem) =>
          LET o == Other(last.who)
          IN  /\ mem[bufs[o].buffer] = last.premem[bufs[o].buffer]
              /\ collect(bufs[o], mem) = collect(last.pre[o], last.premem)

\* The ranges split_in_ranges returns, as a sequence of one or two ranges.
Ranges(self) ==
    LET rs == split_in_ranges(self) IN <<rs[1]>> \o rs[2]
RECURSIVE SumLen(_)
SumLen(ranges) ==
    IF ranges = <<>> THEN 0 ELSE range_len(ranges[1]) + SumLen(Tail(ranges))
\* The content of the slots, in the order given.
ValuesAt(self, m, slots) == [k \in DOMAIN slots |-> m[self.buffer][slots[k]]]

\* C21: split_in_ranges returns at most two ranges, each within the storage,
\* whose lengths add up to len(); read in order they list exactly the slots
\* holding live values, oldest to newest (the order in which next() hands the
\* values out, and the order of the reference sequence), no slot twice.
C21_SplitListsLiveSlots ==
    Alive =>
        /\ Len(Ranges(a)) \in {1, 2}
        /\ \A k \in DOMAIN Ranges(a) :
              /\ 0 <= Ranges(a)[k].start
              /\ Ranges(a)[k].start <= Ranges(a)[k].end
              /\ Ranges(a)[k].end <= a.size
        /\ SumLen(Ranges(a)) = len(a)
        /\ Len(split_slots(a)) = len(a)
        /\ NoRepeat(split_slots(a))
        /\ Slots(split_slots(a)) = LiveOf(live, a)
        /\ len(a) > 0 =>
              /\ ValuesAt(a, mem, split_slots(a)) = collect(a, mem)
              /\ ValuesAt(a, mem, split_slots(a)) = fifo
              /\ split_slots(a)[1] = a.r
              /\ \A k \in 1..(len(a) - 1) :
                    split_slots(a)[k + 1] = (split_slots(a)[k] + 1) % a.size

\* A wrapped region: two non-empty ranges, the oldest value differing from the
\* newest.
C21_Witness ==
    /\ Alive /\ a.r > a.w /\ a.w > 0
    /\ Len(Ranges(a)) = 2
    /\ range_len(Ranges(a)[1]) >= 1 /\ range_len(Ranges(a)[2]) >= 1
    /\ mem[a.buffer][a.r] # mem[a.buffer][a.w - 1]

\* The full flag of one instance against the live values of its storage.
FullFlagExact(self) ==
    /\ self.full <=> Cardinality(LiveOf(live, self)) = self.size
    /\ self.full => self.r = self.w
    /\ (self.r = self.w /\ ~self.full) => LiveOf(live, self) = {} /\ len(self) = 0

\* C22: in every state reached by push, pull, fill, _fast_fill and clone, the
\* full flag is true exactly when the number of live values equals the
\* capacity; when it is true the cursors coincide; when the cursors coincide
\* and it is false the buffer holds no live value.
C22_FullFlagExact ==
    (~panicked /\ last.dup # "copy") =>
        \A i \in DOMAIN bufs : FullFlagExact(bufs[i])

\* C23: on a buffer of capacity >= 1 no operation aborts: a push stores its
\* value whatever the occupancy, fill stops after exactly min(len, room)
\* pulls, _fast_fill after moving as many slots, and fmt after visiting
\* exactly len() slots; from every state the next push, pull, drain, render
\* and clone would complete as well.
C23_OperationsComplete ==
    /\ (last.op = "push" /\ last.pre.a.size >= 1) =>
          /\ ~panicked
          /\ mem[last.pre.a.buffer][last.pre.a.w] = last.value
          /\ len(a) = Min(len(last.pre.a) + 1, a.size)
    /\ (last.op \in {"fill", "_fast_fill"} /\ last.pre.a.size >= 1) =>
          /\ ~panicked
          /\ Len(last.read) = Min(len(last.pre.a), room(last.vecIn))
          /\ last.ret = Len(last.read)
    /\ (last.op = "next" /\ last.pre.a.size >= 1) =>
          /\ ~panicked
          /\ Len(last.read) = Min(len(last.pre.a), 1)
    /\ (last.op = "fmt" /\ last.pre.a.size >= 1) =>
          /\ ~panicked
          /\ Len(last.read) = len(a)
    /\ (Alive /\ a.size >= 1) =>
          \A value \in Values : ~push(a, mem, value).panic

\* The values of a sequence.
Range(seq) == { seq[k] : k \in DOMAIN seq }
\* The value the consumer has taken out of the buffer and not yet put into
\* its vector.
InFlight == IF sync.pc = "read" THEN {mem[a.buffer][sync.r_index]} ELSE {}

\* C24: with every push and every fill under the one lock, whatever the
\* interleaving: at most one thread is inside the lock; the consumer receives
\* the values in push order, none twice, and never a value older than one it
\* already has; every pushed value is exactly one of delivered (or in the
\* consumer's hands inside fill), occupying the buffer, or evicted by a push
\* on a full buffer; and a finished fill has done what fill does to the
\* buffer it found.
C24_LockedHandoff ==
    Alive =>
        /\ Cardinality(sync.lock) <= 1
        /\ \A j, k \in DOMAIN sync.delivered :
              j < k => sync.delivered[j] < sync.delivered[k]
        /\ \A d \in Range(sync.delivered) \cup InFlight :
              \A v \in Range(collect(a, mem)) : d < v
        /\ Range(sync.delivered) \cup InFlight \cup Range(collect(a, mem))
              \cup Range(sync.evicted) = 1..Len(sync.pushed)
        /\ Len(sync.delivered) + Cardinality(InFlight) + len(a) + Len(sync.evicted)
              = Len(sync.pushed)
        /\ sync.lock = {} => collect(a, mem) = fifo
        /\ last.op = "fill" =>
              /\ last.vecOut = fill(last.pre.a, last.premem, last.vecIn).vec
              /\ last.ret = fill(last.pre.a, last.premem, last.vecIn).ret
        /\ (last.op = "fill" /\ sync.lock = {}) =>
              a = fill(last.pre.a, last.premem, last.vecIn).self

\* The consumer inside fill, between advancing the read cursor and reading
\* the slot, the producer waiting outside; values were delivered and evicted
\* before, and the buffer was full when fill began.
C24_Witness ==
    /\ Alive /\ sync.pc = "read" /\ sync.lock = {"consumer"}
    /\ last.op = "fill_begin" /\ last.pre.a.full /\ last.pre.a.r > 0
    /\ sync.delivered # <<>> /\ sync.evicted # <<>>
    /\ len(a) >= 1

====
